---- MODULE Spec2Model ----
(***************************************************************************)
(* The Visdom logging plugins of trainer/plugins/visdom_logger.py:          *)
(* BaseVisdomLogger, VisdomLogger, VisdomPlotLogger, VisdomTextLogger and   *)
(* VisdomSaver, together with the Visdom server they call and the trainer   *)
(* statistics they read.                                                    *)
(*                                                                          *)
(* A Python string is a sequence of tokens, so that concatenation and       *)
(* "<br>".join are computed and not assumed.  A Python call that raises     *)
(* yields exc # "None" and the state the object had when it raised.         *)
(***************************************************************************)
EXTENDS Integers, Sequences, FiniteSets, TLC

VARIABLES
    self,     \* the logger under test (NoObject before a construction succeeds)
    saver,    \* the VisdomSaver under test (NoObject before construction)
    viz,      \* the Visdom server: the calls the last operation sent it, how
              \* many calls of each method it has received, the windows it made
    stats,    \* trainer.stats, the nested statistics mapping
    op,       \* the last operation: its name, inputs, outcome, and the object before it
    msgs      \* TextSpec only: the messages passed to log since construction

vars == <<self, saver, viz, stats, op, msgs>>

----------------------------------------------------------------------------
(* Bounds *)

\* The server receives at most this many calls; an operation that would
\* exceed it is not started.
MaxCalls == 4

----------------------------------------------------------------------------
(* Values *)

None == <<"None", 0>>          \* Python's None, where a window id is expected
NoneStr == <<"None">>          \* Python's None, where a string or list is expected
NoObject == [cls |-> "None"]
EmptyMap == [k \in {} |-> 0]

UserWin == <<"user", 0>>       \* a window id the caller passes to a constructor
FreshWin(n) == <<"window_", n>>

BR == <<"<br>">>
Messages == {<<>>, <<"a">>, <<"b">>}
HookMessages == {<<>>, <<"a">>}    \* the messages logged between hooks
PrefixStr == <<"#", "Epoch summary:">>
SuffixStr == <<"#">>

\* A statistics value: a mapping (dict) or a leaf.
Dict(f) == [isdict |-> TRUE, items |-> f]
Leaf(n) == [isdict |-> FALSE, value |-> n]

\* trainer.stats when a hook fires: every top-level entry is the dict of
\* one monitor.
StatsSet ==
    { Dict([loss |-> Dict(EmptyMap)]),
      Dict([loss |-> Dict([last |-> Leaf(1)])]),
      Dict([loss |-> Dict([last |-> Leaf(1)]), acc |-> Dict([last |-> Leaf(2)])]) }

\* The field paths of a logger: Logger.__init__ splits each field at '.'.
FieldLists ==
    { <<<<"loss">>>>,
      <<<<"loss", "last">>, <<"acc", "last">>>>,
      <<<<"loss", "last">>, <<"acc", "last">>, <<"loss">>>> }

\* Positional values of a direct log call on a chart logger.
ArgLists == { <<1>>, <<1, 2>>, <<1, 2, 1>> }

----------------------------------------------------------------------------
(* The Visdom server *)

\* The server is the visdom package, not code of this repository.  It is
\* modelled by its contract: a plotting method draws into the window whose id
\* it is given and returns that id, or makes a window and returns the new id
\* when given none.  A call that the server receives always returns.

VizMethods == {"scatter", "line", "image", "histogram", "text"}
VizCalls == VizMethods \cup {"updateTrace", "save"}

\* The server receives call c.
receive(v, c) ==
    [v EXCEPT !.calls = Append(@, c), !.count[c.fn] = @ + 1]

\* The number of calls the server has received.
total(v) ==
    v.count["scatter"] + v.count["line"] + v.count["image"] + v.count["histogram"]
    + v.count["text"] + v.count["updateTrace"] + v.count["save"]

\* A call the server received: its positional arguments and its keyword
\* arguments X, Y, win, env, opts (NoArg where the caller passed none).
NoArg == <<"NoArg">>
call(fn, args, X, Y, win, env, opts) ==
    [fn |-> fn, args |-> args, X |-> X, Y |-> Y, win |-> win, env |-> env, opts |-> opts]

\* A plotting method (scatter, line, image, histogram, text): the server
\* draws into the window named by win, or into a new window when win is None,
\* and returns the id of the window it drew into.
viz_plot(v, fn, args, X, win, env, opts) ==
    LET made == (win = None)
        id   == IF made THEN FreshWin(v.nwin + 1) ELSE win
    IN [viz |-> [receive(v, call(fn, args, X, NoArg, win, env, opts))
                    EXCEPT !.nwin = IF made THEN @ + 1 ELSE @],
        ret |-> id]

\* updateTrace: appends the points X, Y to the trace of window win.
viz_updateTrace(v, X, Y, win, env, opts) ==
    [viz |-> receive(v, call("updateTrace", <<>>, X, Y, win, env, opts)),
     ret |-> win]

\* save: persists environments; args are the positional arguments given.
viz_save(v, args) ==
    receive(v, call("save", args, NoArg, NoArg, None, "None", EmptyMap))

----------------------------------------------------------------------------
(* Results of a call on an object *)

Ok(s, v) == [self |-> s, viz |-> v, exc |-> "None"]
Raise(s, v, e) == [self |-> s, viz |-> v, exc |-> e]

----------------------------------------------------------------------------
(* Strings *)

RECURSIVE join(_, _)
\* sep.join(list): the elements of list with sep between them.
join(sep, list) ==
    IF list = <<>> THEN <<>>
    ELSE IF Len(list) = 1 THEN list[1]
    ELSE list[1] \o sep \o join(sep, Tail(list))

\* Whether string t ends with string s.
EndsWith(t, s) ==
    /\ Len(s) <= Len(t)
    /\ SubSeq(t, Len(t) - Len(s) + 1, Len(t)) = s

----------------------------------------------------------------------------
(* BaseVisdomLogger *)

\* __init__: Logger.__init__ stores the field paths, then win, env, opts.
BaseVisdomLogger_init(cls, fields, win, env, opts) ==
    [cls |-> cls, fields |-> fields, win |-> win, env |-> env, opts |-> opts,
     plot_type |-> "None", chart |-> "None", text |-> <<>>, update_type |-> "None"]

\* A faulty variant of _viz_prototype: the stored window id is not passed on.
_viz_prototype_nowin(s, v, vis_fn, args) ==
    LET r == viz_plot(v, vis_fn, args, NoArg, None, s.env, s.opts)
    IN Ok([s EXCEPT !.win = r.ret], r.viz)

\* The closure _viz_prototype(vis_fn) returns, applied to args: calls vis_fn
\* with the stored win, env and opts and stores what it returns as win.
_viz_prototype(s, v, vis_fn, args) ==
    LET r == viz_plot(v, vis_fn, args, NoArg, s.win, s.env, s.opts)
    IN Ok([s EXCEPT !.win = r.ret], r.viz)

\* A faulty variant of lookup: the walk stops one key short and yields the parent.
lookup_parent(stat, path) ==
    IF path = <<>> \/ Head(path) \notin DOMAIN stat.items
    THEN [found |-> path = <<>>, stat |-> stat, parent |-> stat]
    ELSE [found |-> TRUE, stat |-> stat.items[Head(path)], parent |-> stat]

RECURSIVE lookup(_, _)
\* The inner loop of _log_all: stat = stat[f] for each f of the path.
\* found is FALSE where a key is absent (Python raises KeyError there).
lookup(stat, path) ==
    IF path = <<>> THEN [found |-> TRUE, stat |-> stat, parent |-> stat]
    ELSE IF Head(path) \notin DOMAIN stat.items
         THEN [found |-> FALSE, stat |-> stat, parent |-> stat]
    ELSE IF Len(path) = 1
         THEN [found |-> TRUE, stat |-> stat.items[Head(path)], parent |-> stat]
    ELSE lookup(stat.items[Head(path)], Tail(path))

\* The outer loop of _log_all, up to the first field that raises:
\* the values gathered, and whether every field resolved.
resolve_all(fields, st) ==
    LET ok(i) == lookup(st, fields[i]).found
        bad == {i \in 1..Len(fields) : ~ok(i)}
    IN [found |-> bad = {},
        results |-> [i \in 1..Len(fields) |->
                        IF ok(i) THEN lookup(st, fields[i]).stat ELSE Leaf(0)]]

----------------------------------------------------------------------------
(* VisdomLogger *)

VisdomLogger_plot_types == {"image", "histogram", "bogus"}

\* __init__: getattr(self.viz, plot_type) raises AttributeError when the
\* Visdom client has no such method.
VisdomLogger_init(plot_type, fields, win, env, opts) ==
    LET s == BaseVisdomLogger_init("VisdomLogger", fields, win, env, opts)
    IN IF plot_type \notin VizMethods
       THEN [self |-> NoObject, exc |-> "AttributeError"]
       ELSE [self |-> [s EXCEPT !.plot_type = plot_type, !.chart = plot_type],
             exc |-> "None"]

VisdomLogger_log(s, v, args) == _viz_prototype(s, v, s.chart, args)

----------------------------------------------------------------------------
(* VisdomPlotLogger *)

valid_plot_types == {"scatter", "line"}
VisdomPlotLogger_plot_types == {"scatter", "line", "bogus"}

\* A faulty variant of VisdomPlotLogger_init: the requested kind is always honoured.
VisdomPlotLogger_init_honoured(plot_type, fields, win, env, opts) ==
    LET s == BaseVisdomLogger_init("VisdomPlotLogger", fields, win, env, opts)
    IN IF plot_type \notin valid_plot_types
       THEN [self |-> NoObject, exc |-> "ValueError"]
       ELSE [self |-> [s EXCEPT !.chart = plot_type], exc |-> "None"]

\* __init__: the chart is the requested kind only under the opts key
\* 'plot_type'; without that key it is scatter.
VisdomPlotLogger_init(plot_type, fields, win, env, opts) ==
    LET s == BaseVisdomLogger_init("VisdomPlotLogger", fields, win, env, opts)
    IN IF "plot_type" \in DOMAIN opts
       THEN IF plot_type \notin valid_plot_types
            THEN [self |-> NoObject, exc |-> "ValueError"]
            ELSE [self |-> [s EXCEPT !.chart = plot_type], exc |-> "None"]
       ELSE [self |-> [s EXCEPT !.chart = "scatter"], exc |-> "None"]

\* A faulty variant of VisdomPlotLogger_log: the id the chart returns is not stored.
VisdomPlotLogger_log_unstored(s, v, args) ==
    IF s.win # None
    THEN IF Len(args) # 2
         THEN Raise(s, v, "ValueError")
         ELSE Ok(s, viz_updateTrace(v, <<args[1]>>, <<args[2]>>, s.win, s.env, s.opts).viz)
    ELSE Ok(s, viz_plot(v, s.chart, <<>>, <<args>>, s.win, s.env, s.opts).viz)

\* A faulty variant of VisdomPlotLogger_log: only too few values are refused.
VisdomPlotLogger_log_atleast(s, v, args) ==
    IF s.win # None
    THEN IF Len(args) < 2
         THEN Raise(s, v, "ValueError")
         ELSE Ok(s, viz_updateTrace(v, <<args[1]>>, <<args[2]>>, s.win, s.env, s.opts).viz)
    ELSE LET r == viz_plot(v, s.chart, <<>>, <<args>>, s.win, s.env, s.opts)
         IN Ok([s EXCEPT !.win = r.ret], r.viz)

\* log: updateTrace on the stored window, or a new chart when none is stored.
VisdomPlotLogger_log(s, v, args) ==
    IF s.win # None
    THEN IF Len(args) # 2
         THEN Raise(s, v, "ValueError")
         ELSE Ok(s, viz_updateTrace(v, <<args[1]>>, <<args[2]>>, s.win, s.env, s.opts).viz)
    ELSE LET r == viz_plot(v, s.chart, <<>>, <<args>>, s.win, s.env, s.opts)
         IN Ok([s EXCEPT !.win = r.ret], r.viz)

----------------------------------------------------------------------------
(* VisdomTextLogger *)

valid_update_types == {"REPLACE", "APPEND"}
VisdomTextLogger_update_types == {"REPLACE", "APPEND", "BOGUS"}

\* A faulty variant of VisdomTextLogger_init: update_type is stored unvalidated.
VisdomTextLogger_init_unvalidated(fields, win, env, opts, update_type) ==
    LET s == BaseVisdomLogger_init("VisdomTextLogger", fields, win, env, opts)
    IN [self |-> [s EXCEPT !.update_type = update_type], exc |-> "None"]

\* __init__: validates update_type after the base constructor ran.
VisdomTextLogger_init(fields, win, env, opts, update_type) ==
    LET s == BaseVisdomLogger_init("VisdomTextLogger", fields, win, env, opts)
    IN IF update_type \notin valid_update_types
       THEN [self |-> NoObject, exc |-> "ValueError"]
       ELSE [self |-> [s EXCEPT !.update_type = update_type], exc |-> "None"]

\* A faulty variant of VisdomTextLogger_log: APPEND joins even onto empty text.
VisdomTextLogger_log_joins(s, v, msg) ==
    LET text == IF s.update_type = "APPEND"
                THEN join(BR, <<s.text, msg>>)
                ELSE msg
    IN _viz_prototype([s EXCEPT !.text = text], v, "text", << <<text>> >>)

\* log(msg): the new text, then viz.text([self.text]) through the closure.
VisdomTextLogger_log(s, v, msg) ==
    LET text == IF s.update_type = "APPEND" /\ s.text # <<>>
                THEN join(BR, <<s.text, msg>>)
                ELSE msg
    IN _viz_prototype([s EXCEPT !.text = text], v, "text", << <<text>> >>)

----------------------------------------------------------------------------
(* Dispatch of self.log, and the field-gathering routines *)

\* self.log(*args): the log method of the object's class.  The text logger
\* takes its first positional value as msg.
log(s, v, args) ==
    CASE s.cls = "VisdomLogger" -> VisdomLogger_log(s, v, args)
      [] s.cls = "VisdomPlotLogger" -> VisdomPlotLogger_log(s, v, args)
      [] s.cls = "VisdomTextLogger" -> VisdomTextLogger_log(s, v, args[1])

\* BaseVisdomLogger._log_all: resolves every field, then self.log(*results).
BaseVisdomLogger_log_all(s, v, st, log_fields, prefix, suffix, require_dict) ==
    LET r == resolve_all(s.fields, st)
    IN IF ~r.found THEN Raise(s, v, "KeyError")
       ELSE log(s, v, r.results)

\* Logger._gather_outputs: the formatted output of one field, a list of
\* strings; a dict yields one string per entry, a leaf one string unless
\* require_dict.
_gather_outputs(field, log_fields, parent, stat, require_dict) ==
    LET name == join(<<".">>, [i \in 1..Len(field) |-> <<field[i]>>])
        output == IF stat.isdict
                  THEN IF "last" \in DOMAIN stat.items
                       THEN << <<ToString(stat.items["last"].value)>> >>
                       ELSE <<>>
                  ELSE IF require_dict THEN <<>>
                  ELSE << <<ToString(stat.value)>> >>
    IN [name |-> name, output |-> output]

\* Logger._join_results: "name: outputs" of every result, tab-separated.
_join_results(results) ==
    join(<<"\t">>, [i \in 1..Len(results) |->
                      results[i].name \o <<": ">> \o join(<<" ">>, results[i].output)])

\* The results list of VisdomTextLogger._log_all: the (name, output) of the
\* fields whose output is not empty, in field order.  (_align_output pads
\* the strings of a column to one width; the formatted values here all have
\* the same width, so it adds nothing.)
RECURSIVE gather_results(_, _, _, _)
gather_results(fields, st, log_fields, require_dict) ==
    IF fields = <<>> THEN <<>>
    ELSE LET l == lookup(st, Head(fields))
             g == _gather_outputs(Head(fields), log_fields, l.parent, l.stat, require_dict)
             rest == gather_results(Tail(fields), st, log_fields, require_dict)
         IN IF g.output = <<>> THEN rest ELSE <<g>> \o rest

\* self.log(first) then, when it did not raise, the continuation.
then_log(r, given, msg) ==
    IF r.exc # "None" \/ ~given THEN r ELSE log(r.self, r.viz, <<msg>>)

\* A faulty variant of VisdomTextLogger_log_all: the empty results are logged too.
VisdomTextLogger_log_all_noskip(s, v, st, log_fields, prefix, suffix, require_dict) ==
    LET r == resolve_all(s.fields, st)
        results == gather_results(s.fields, st, log_fields, require_dict)
        output == _join_results(results)
    IN IF ~r.found THEN Raise(s, v, "KeyError")
       ELSE then_log(then_log(then_log(Ok(s, v), prefix # NoneStr, prefix),
                              TRUE, output),
                     suffix # NoneStr, suffix)

\* VisdomTextLogger._log_all: nothing when no field has output; otherwise
\* log(prefix), log(output), log(suffix), the outer two only when given.
VisdomTextLogger_log_all(s, v, st, log_fields, prefix, suffix, require_dict) ==
    LET r == resolve_all(s.fields, st)
        results == gather_results(s.fields, st, log_fields, require_dict)
        output == _join_results(results)
    IN IF ~r.found THEN Raise(s, v, "KeyError")
       ELSE IF results = <<>> THEN Ok(s, v)
       ELSE then_log(then_log(then_log(Ok(s, v), prefix # NoneStr, prefix),
                              TRUE, output),
                     suffix # NoneStr, suffix)

\* self._log_all(...): the override of the object's class.
_log_all(s, v, st, log_fields, prefix, suffix, require_dict) ==
    IF s.cls = "VisdomTextLogger"
    THEN VisdomTextLogger_log_all(s, v, st, log_fields, prefix, suffix, require_dict)
    ELSE BaseVisdomLogger_log_all(s, v, st, log_fields, prefix, suffix, require_dict)

\* Logger.epoch, the hook of the parent class: gathers the fields and logs
\* them, with the prefix, suffix and require_dict its caller configured.
Logger_epoch(s, v, st, prefix, suffix, require_dict) ==
    _log_all(s, v, st, "log_epoch_fields", prefix, suffix, require_dict)

\* A faulty variant of BaseVisdomLogger_epoch: the save is issued before the parent's
\* hook, whatever the hook then does.
BaseVisdomLogger_epoch_savefirst(s, v, st, prefix, suffix, require_dict) ==
    Logger_epoch(s, viz_save(v, <<>>), st, prefix, suffix, require_dict)

\* BaseVisdomLogger.epoch: the parent's hook, then self.viz.save().
BaseVisdomLogger_epoch(s, v, st, prefix, suffix, require_dict) ==
    LET r == Logger_epoch(s, v, st, prefix, suffix, require_dict)
    IN IF r.exc # "None" THEN r ELSE Ok(r.self, viz_save(r.viz, <<>>))

----------------------------------------------------------------------------
(* VisdomSaver *)

HookNames == {"epoch", "iteration", "batch"}
Intervals ==
    { << <<1, "epoch">> >>,
      << <<2, "iteration">>, <<1, "epoch">> >>,
      << <<1, "batch">> >>,
      << <<1, "epoch">>, <<2, "epoch">> >>,
      <<>> }
EnvLists == { NoneStr, <<>>, <<"main">>, <<"main", "exp">> }

\* __init__: binds self.save to every hook name of the interval.
VisdomSaver_init(envs, interval) ==
    [cls |-> "VisdomSaver", envs |-> envs, interval |-> interval,
     hooks |-> {interval[i][2] : i \in 1..Len(interval)}]

\* A faulty variant of VisdomSaver_save: one viz.save call per environment.
VisdomSaver_save_each(s, v) ==
    Ok(s, IF s.envs = NoneStr \/ Len(s.envs) < 2 THEN viz_save(v, <<s.envs>>)
          ELSE viz_save(viz_save(v, << <<s.envs[1]>> >>), << <<s.envs[2]>> >>))

\* save: one viz.save call whose argument is self.envs.
VisdomSaver_save(s, v) == Ok(s, viz_save(v, <<s.envs>>))

\* The trainer calls the attribute named after the hook.
VisdomSaver_hook(s, v, name) ==
    IF name \in s.hooks THEN VisdomSaver_save(s, v)
    ELSE Raise(s, v, "AttributeError")

----------------------------------------------------------------------------
(* The state machine *)

\* The window, environment and options a constructor is given.
BaseArgs ==
    { [win |-> None, env |-> "None", opts |-> EmptyMap],
      [win |-> UserWin, env |-> "main", opts |-> [title |-> "T"]] }
PlotArgs ==
    BaseArgs \cup { [win |-> None, env |-> "main", opts |-> [plot_type |-> "line"]] }

Op(name, args, exc, pre) ==
    [name |-> name, args |-> args, exc |-> exc, pre |-> pre]

Init ==
    /\ self = NoObject
    /\ saver = NoObject
    /\ viz = [calls |-> <<>>, count |-> [fn \in VizCalls |-> 0], nwin |-> 0]
    /\ stats = Dict(EmptyMap)
    /\ op = Op("init", <<>>, "None", NoObject)
    /\ msgs = <<>>

\* A constructor call: the object exists only when the constructor returned.
Construct(name, args, r) ==
    /\ self' = r.self
    /\ op' = Op(name, args, r.exc, NoObject)
    /\ UNCHANGED <<saver, viz, stats, msgs>>

NewVisdomLogger ==
    /\ self = NoObject
    /\ saver = NoObject
    /\ \E pt \in VisdomLogger_plot_types, f \in FieldLists, b \in BaseArgs :
            Construct("VisdomLogger", [plot_type |-> pt, fields |-> f, base |-> b],
                      VisdomLogger_init(pt, f, b.win, b.env, b.opts))

NewVisdomPlotLogger ==
    /\ self = NoObject
    /\ saver = NoObject
    /\ \E pt \in VisdomPlotLogger_plot_types, f \in FieldLists, b \in PlotArgs :
            Construct("VisdomPlotLogger", [plot_type |-> pt, fields |-> f, base |-> b],
                      VisdomPlotLogger_init(pt, f, b.win, b.env, b.opts))

NewVisdomTextLogger ==
    /\ self = NoObject
    /\ saver = NoObject
    /\ \E ut \in VisdomTextLogger_update_types, f \in FieldLists, b \in BaseArgs :
            Construct("VisdomTextLogger", [update_type |-> ut, fields |-> f, base |-> b],
                      VisdomTextLogger_init(f, b.win, b.env, b.opts, ut))

\* The server as an operation finds it: nothing sent yet.
Idle(v) == [v EXCEPT !.calls = <<>>]

\* A call on the logger: its effect on the logger and on the server.
Call(name, args, r) ==
    /\ total(r.viz) <= MaxCalls
    /\ self' = r.self
    /\ viz' = r.viz
    /\ op' = Op(name, args, r.exc, self)
    /\ UNCHANGED saver

\* self.log(*args), called directly.
Log ==
    /\ self # NoObject
    /\ \E args \in (IF self.cls = "VisdomTextLogger"
                    THEN {<<m>> : m \in HookMessages} ELSE ArgLists) :
        /\ Call("log", args, log(self, Idle(viz), args))
        /\ UNCHANGED <<stats, msgs>>

\* The prefix, suffix and require_dict a hook passes to _log_all.
HookArgs ==
    { [prefix |-> NoneStr, suffix |-> NoneStr, require_dict |-> FALSE],
      [prefix |-> PrefixStr, suffix |-> SuffixStr, require_dict |-> TRUE],
      [prefix |-> PrefixStr, suffix |-> NoneStr, require_dict |-> FALSE],
      [prefix |-> NoneStr, suffix |-> SuffixStr, require_dict |-> TRUE] }

\* self._log_all(...), as the hooks of Logger call it, on the statistics
\* the trainer and its monitors hold when the hook fires.
LogAll ==
    /\ self # NoObject
    /\ \E a \in HookArgs, st \in StatsSet :
        /\ stats' = st
        /\ UNCHANGED msgs
        /\ Call("_log_all", a,
                _log_all(self, Idle(viz), st, "log_iter_fields",
                         a.prefix, a.suffix, a.require_dict))

\* What Logger.epoch passes to _log_all: nothing, or an epoch summary
\* between separators, gathered from dicts only.
EpochArgs ==
    { [prefix |-> NoneStr, suffix |-> NoneStr, require_dict |-> FALSE],
      [prefix |-> PrefixStr, suffix |-> SuffixStr, require_dict |-> TRUE] }

\* self.epoch(epoch_idx), the end-of-epoch hook.
Epoch ==
    /\ self # NoObject
    /\ \E a \in EpochArgs, st \in StatsSet :
        /\ stats' = st
        /\ UNCHANGED msgs
        /\ Call("epoch", a,
                BaseVisdomLogger_epoch(self, Idle(viz), st,
                                       a.prefix, a.suffix, a.require_dict))

Next ==
    \/ NewVisdomLogger
    \/ NewVisdomPlotLogger
    \/ NewVisdomTextLogger
    \/ Log
    \/ LogAll
    \/ Epoch

Spec == Init /\ [][Next]_vars

\* The VisdomSaver on its own server connection.
NewVisdomSaver ==
    /\ self = NoObject
    /\ saver = NoObject
    /\ \E envs \in EnvLists, interval \in Intervals :
        /\ saver' = VisdomSaver_init(envs, interval)
        /\ op' = Op("VisdomSaver", [envs |-> envs, interval |-> interval], "None", NoObject)
    /\ UNCHANGED <<self, viz, stats, msgs>>

\* The trainer fires a hook on the saver.
SaverHook ==
    /\ saver # NoObject
    /\ \E name \in HookNames :
        LET r == VisdomSaver_hook(saver, Idle(viz), name)
        IN /\ total(r.viz) <= MaxCalls
           /\ saver' = r.self
           /\ viz' = r.viz
           /\ op' = Op(name, <<>>, r.exc, saver)
    /\ UNCHANGED <<self, stats, msgs>>

SaverNext ==
    \/ NewVisdomSaver
    \/ SaverHook

SaverSpec == Init /\ [][SaverNext]_vars

\* A text logger that is only sent messages, with the messages remembered.
TextLog ==
    /\ self # NoObject
    /\ \E m \in Messages :
        /\ Call("log", <<m>>, log(self, Idle(viz), <<m>>))
        /\ msgs' = Append(msgs, m)
        /\ UNCHANGED stats

TextNext ==
    \/ NewVisdomTextLogger
    \/ TextLog

TextSpec == Init /\ [][TextNext]_vars

----------------------------------------------------------------------------
(* Vocabulary of the properties *)

IsLoggerOp == op.name \in {"log", "_log_all", "epoch"}
Sent == viz.calls                   \* the calls the last operation sent
Saves == {i \in DOMAIN Sent : Sent[i].fn = "save"}
Charts == viz.count["scatter"] + viz.count["line"]

\* The statistics hold every key of path p / the value they hold there.
Present(st, p) ==
    /\ p[1] \in DOMAIN st.items
    /\ Len(p) = 2 => p[2] \in DOMAIN st.items[p[1]].items
ValueAt(st, p) ==
    IF Len(p) = 1 THEN st.items[p[1]] ELSE st.items[p[1]].items[p[2]]
AllPresent(fields, st) == \A i \in DOMAIN fields : Present(st, fields[i])
Leaves(fields, st) == [i \in DOMAIN fields |-> ValueAt(st, fields[i])]

\* The positional values the last operation handed to self.log, for the
\* operations that hand it values: a direct call, or a hook whose fields
\* all resolved.
LogInvoked ==
    \/ op.name = "log"
    \/ op.name \in {"_log_all", "epoch"} /\ AllPresent(op.pre.fields, stats)
LogValues ==
    IF op.name = "log" THEN op.args ELSE Leaves(op.pre.fields, stats)

\* A plot logger that was constructed without a window id.
PlotNoWin ==
    /\ self.cls = "VisdomPlotLogger"
    /\ self.win # UserWin

----------------------------------------------------------------------------
(* C1 *)

\* The first log call of a plot logger without a window id: one chart call,
\* whose returned id is stored.
C1_First ==
    (PlotNoWin /\ IsLoggerOp /\ LogInvoked /\ op.pre.win = None) =>
        /\ op.exc \in {"None"}
        /\ Len(Sent) >= 1
        /\ Sent[1].fn = self.chart
        /\ Sent[1].win = None
        /\ Sent[1].X = <<LogValues>>
        /\ self.win = FreshWin(viz.nwin)
        /\ self.win # None

\* A later log call is an updateTrace on the stored id.
C1_LaterUpdates ==
    /\ Len(Sent) >= 1
    /\ Sent[1].fn = "updateTrace"
    /\ Sent[1].win = op.pre.win
    /\ self.win = op.pre.win

\* C1 as stated: the first log call of a VisdomPlotLogger without a stored
\* window id issues the chart call and stores the id it returns, EVERY later
\* log call issues an updateTrace call referencing that id, and no second
\* chart call is ever issued.
C1_Original ==
    /\ C1_First
    /\ (PlotNoWin /\ IsLoggerOp /\ LogInvoked /\ op.pre.win # None) => C1_LaterUpdates
    /\ PlotNoWin => Charts <= 1

\* C1 (amended): the first log call of a VisdomPlotLogger without a stored
\* window id issues the chart call and stores the id it returns; every later
\* log call with exactly two positional values issues an updateTrace call
\* referencing that id, a later call with any other number of values issues
\* no remote call, and no second chart call is ever issued.
C1_Amended ==
    /\ C1_First
    /\ (PlotNoWin /\ IsLoggerOp /\ LogInvoked /\ op.pre.win # None) =>
          IF Len(LogValues) = 2
          THEN C1_LaterUpdates /\ Sent[1].X = <<LogValues[1]>> /\ Sent[1].Y = <<LogValues[2]>>
          ELSE Sent = <<>> /\ self.win = op.pre.win
    /\ PlotNoWin => Charts <= 1
    /\ (PlotNoWin /\ self.win # None) => Charts = 1

\* A later call, after the create call, updated the trace.
C1_Witness ==
    /\ PlotNoWin
    /\ op.name = "log"
    /\ op.pre.win = FreshWin(1)
    /\ Len(Sent) = 1
    /\ Sent[1].fn = "updateTrace"
    /\ viz.count["updateTrace"] >= 2
    /\ Charts = 1

----------------------------------------------------------------------------
(* C2 *)

\* C2: for every concrete logger, once the stored window id is set no log
\* call changes it, and every plot or update call sent afterwards carries
\* it as win.
C2_WinStable ==
    (IsLoggerOp /\ op.pre.win # None) =>
        /\ self.win = op.pre.win
        /\ \A i \in DOMAIN Sent : Sent[i].fn # "save" => Sent[i].win = op.pre.win

\* A generic logger whose id the server assigned logs again.
C2_Witness ==
    /\ self.cls = "VisdomLogger"
    /\ op.name = "log"
    /\ op.pre.win = FreshWin(1)
    /\ Len(Sent) = 1
    /\ Sent[1].win = FreshWin(1)
    /\ self.win = FreshWin(1)

----------------------------------------------------------------------------
(* C4 *)

\* C4: a VisdomPlotLogger with a stored window id that is handed other than
\* exactly two positional values raises ValueError, sends nothing, and keeps
\* its window id.
C4_ArityError ==
    (self.cls = "VisdomPlotLogger" /\ IsLoggerOp /\ LogInvoked
        /\ op.pre.win # None /\ Len(LogValues) # 2) =>
        /\ op.exc = "ValueError"
        /\ Sent = <<>>
        /\ self.win = op.pre.win
        /\ self = op.pre

\* Three values handed to a plot logger that has a window.
C4_Witness ==
    /\ self.cls = "VisdomPlotLogger"
    /\ op.name = "log"
    /\ op.pre.win # None
    /\ op.args = <<1, 2, 1>>
    /\ op.exc = "ValueError"

----------------------------------------------------------------------------
(* C3 *)

\* Every log call of a text logger forwards the single-element list that
\* holds the text accumulated after that call.
C3_Forwarded ==
    (self.cls = "VisdomTextLogger" /\ op.name = "log") =>
        /\ Len(Sent) = 1
        /\ Sent[1].fn = "text"
        /\ Sent[1].args = << <<self.text>> >>

\* C3 as stated: on a fresh VisdomTextLogger, log(a) then log(b) leaves the
\* text b in REPLACE mode and a + "<br>" + b in APPEND mode, for ANY two
\* messages, and each call forwards the list holding the accumulated text.
C3_Original ==
    /\ C3_Forwarded
    /\ (self.cls = "VisdomTextLogger" /\ Len(msgs) = 2) =>
          self.text = IF self.update_type = "REPLACE" THEN msgs[2]
                      ELSE msgs[1] \o BR \o msgs[2]

\* C3 (amended): on a fresh VisdomTextLogger, log(a) then log(b) leaves the
\* text b in REPLACE mode; in APPEND mode it leaves a + "<br>" + b when a is
\* not empty and b alone when a is the empty string; each call forwards the
\* single-element list holding the accumulated text after that call.
C3_Amended ==
    /\ C3_Forwarded
    /\ (self.cls = "VisdomTextLogger" /\ Len(msgs) = 1) => self.text = msgs[1]
    /\ (self.cls = "VisdomTextLogger" /\ Len(msgs) = 2) =>
          self.text = IF self.update_type = "REPLACE" THEN msgs[2]
                      ELSE IF msgs[1] = <<>> THEN msgs[2]
                      ELSE msgs[1] \o BR \o msgs[2]

\* log("a") then log("b") in APPEND mode.
C3_Witness ==
    /\ self.cls = "VisdomTextLogger"
    /\ self.update_type = "APPEND"
    /\ msgs = << <<"a">>, <<"b">> >>
    /\ self.text = <<"a", "<br>", "b">>
    /\ Sent[1].args = << << <<"a", "<br>", "b">> >> >>

----------------------------------------------------------------------------
(* C5 *)

\* C5 as stated: EVERY invocation of the end-of-epoch hook of a concrete
\* logger sends exactly one save call.
C5_Original ==
    op.name = "epoch" => Cardinality(Saves) = 1

\* C5 (amended): an invocation of the end-of-epoch hook that returns
\* without raising sends exactly one save call, after the field-logging
\* calls of that invocation; an invocation whose field gathering or logging
\* raises sends no save call.
C5_Amended ==
    op.name = "epoch" =>
        IF op.exc = "None"
        THEN /\ Saves = {Len(Sent)}
             /\ Sent[Len(Sent)].args = <<>>
        ELSE Saves = {}

\* An epoch hook that logged the fields and then saved.
C5_Witness ==
    /\ op.name = "epoch"
    /\ op.exc = "None"
    /\ Len(Sent) >= 2
    /\ Sent[1].fn # "save"
    /\ Sent[Len(Sent)].fn = "save"

----------------------------------------------------------------------------
(* C6 *)

IntervalNames(interval) == {interval[i][2] : i \in DOMAIN interval}

\* C6: a VisdomSaver has its save operation under every hook name of its
\* interval, and a hook fired under such a name (epoch, for the interval
\* [(1, 'epoch')]) sends exactly one save call whose argument is the whole
\* configured environment list.
C6_SaverSaves ==
    /\ saver.cls = "VisdomSaver" => IntervalNames(saver.interval) \subseteq saver.hooks
    /\ (op.name \in HookNames /\ op.name \in IntervalNames(op.pre.interval)) =>
          /\ op.exc = "None"
          /\ Len(Sent) = 1
          /\ Sent[1].fn = "save"
          /\ Sent[1].args = <<op.pre.envs>>
          /\ saver = op.pre

\* The epoch hook of a saver of two environments, interval [(1, 'epoch')].
C6_Witness ==
    /\ saver.cls = "VisdomSaver"
    /\ saver.interval = << <<1, "epoch">> >>
    /\ saver.envs = <<"main", "exp">>
    /\ op.name = "epoch"
    /\ Len(Sent) = 1
    /\ Sent[1].args = << <<"main", "exp">> >>
    /\ viz.count["save"] >= 2

----------------------------------------------------------------------------
(* C7 *)

UsesBaseLogAll == self.cls \in {"VisdomLogger", "VisdomPlotLogger"}

\* C7: BaseVisdomLogger._log_all hands self.log exactly the values at the
\* configured field paths, in field order; when a key of some path is absent
\* it raises KeyError, log is not invoked, nothing is sent, and the stored
\* window id is unchanged.
C7_LogAll ==
    (UsesBaseLogAll /\ op.name = "_log_all") =>
        LET fields == op.pre.fields
            values == Leaves(fields, stats)
        IN IF ~AllPresent(fields, stats)
           THEN /\ op.exc = "KeyError"
                /\ Sent = <<>>
                /\ self = op.pre
           ELSE /\ op.exc # "KeyError"
                /\ IF self.cls = "VisdomLogger"
                   THEN /\ Len(Sent) = 1
                        /\ Sent[1].args = values
                   ELSE IF op.pre.win = None
                   THEN /\ Len(Sent) = 1
                        /\ Sent[1].X = <<values>>
                   ELSE IF Len(fields) = 2
                   THEN /\ Len(Sent) = 1
                        /\ Sent[1].X = <<values[1]>>
                        /\ Sent[1].Y = <<values[2]>>
                   ELSE op.exc = "ValueError"

\* Two leaves gathered in field order and handed to a generic logger.
C7_Witness ==
    /\ self.cls = "VisdomLogger"
    /\ op.name = "_log_all"
    /\ op.exc = "None"
    /\ self.fields = << <<"loss", "last">>, <<"acc", "last">> >>
    /\ Sent[1].args = <<Leaf(1), Leaf(2)>>

\* A missing key: KeyError and nothing sent.
C7_WitnessMissing ==
    /\ UsesBaseLogAll
    /\ op.name = "_log_all"
    /\ op.exc = "KeyError"
    /\ op.pre.win # None

----------------------------------------------------------------------------
(* C8 *)

\* C8: the chart of a VisdomPlotLogger is the requested kind only when opts
\* holds the key 'plot_type' (and construction fails when that kind is not
\* scatter or line); without the key the chart is scatter whatever was
\* requested.  The create call is the chart.
C8_Chart ==
    /\ op.name = "VisdomPlotLogger" =>
          IF "plot_type" \in DOMAIN op.args.base.opts
          THEN IF op.args.plot_type \in {"scatter", "line"}
               THEN op.exc = "None" /\ self.chart = op.args.plot_type
               ELSE op.exc = "ValueError" /\ self = NoObject
          ELSE op.exc = "None" /\ self.chart = "scatter"
    /\ (self.cls = "VisdomPlotLogger" /\ IsLoggerOp /\ op.pre.win = None /\ Sent # <<>>) =>
          /\ Sent[1].fn = op.pre.chart
          /\ self.chart = op.pre.chart

\* line requested without the key: the chart is scatter.
C8_Witness ==
    /\ op.name = "VisdomPlotLogger"
    /\ op.args.plot_type = "line"
    /\ "plot_type" \notin DOMAIN op.args.base.opts
    /\ self.chart = "scatter"

----------------------------------------------------------------------------
(* C9 *)

\* C9: constructing a VisdomTextLogger with an update_type other than
\* REPLACE or APPEND raises ValueError, leaves no logger, and the server has
\* received no call.
C9_BadUpdateType ==
    (op.name = "VisdomTextLogger" /\ op.args.update_type \notin {"REPLACE", "APPEND"}) =>
        /\ op.exc = "ValueError"
        /\ self = NoObject
        /\ Sent = <<>>
        /\ \A fn \in VizCalls : viz.count[fn] = 0

\* The constructor refused "BOGUS".
C9_Witness ==
    /\ op.name = "VisdomTextLogger"
    /\ op.args.update_type = "BOGUS"
    /\ op.exc = "ValueError"

----------------------------------------------------------------------------
(* C10 *)

\* The strings VisdomTextLogger._log_all logs: prefix (if given), the
\* formatted output, suffix (if given).
C10_Pieces ==
    LET output == _join_results(gather_results(op.pre.fields, stats, "log_iter_fields",
                                               op.args.require_dict))
    IN (IF op.args.prefix = NoneStr THEN <<>> ELSE <<op.args.prefix>>)
       \o <<output>>
       \o (IF op.args.suffix = NoneStr THEN <<>> ELSE <<op.args.suffix>>)

C10_NoOutput ==
    gather_results(op.pre.fields, stats, "log_iter_fields", op.args.require_dict) = <<>>

C10_Appended(i) ==
    join(BR, (IF op.pre.text = <<>> THEN <<>> ELSE <<op.pre.text>>)
             \o SubSeq(C10_Pieces, 1, i))

C10_WitnessAppend ==
    /\ self.cls = "VisdomTextLogger"
    /\ self.update_type = "APPEND"
    /\ op.name = "_log_all"
    /\ op.pre.text = <<"a">>
    /\ Len(Sent) = 3
    /\ self.text = <<"a", "<br>", "#", "Epoch summary:", "<br>", "loss", ": ", "1", "<br>", "#">>

\* No field has output: nothing is logged.
C10_WitnessEmpty ==
    /\ self.cls = "VisdomTextLogger"
    /\ op.name = "_log_all"
    /\ op.exc = "None"
    /\ C10_NoOutput
    /\ op.args.prefix = PrefixStr

====
